---------------------------- MODULE Spec2Model ----------------------------
(***************************************************************************)
(* Model of the cross-sell / upsell recommendation pipeline of main.py and *)
(* of the connection manager of db_manager.py.                             *)
(*                                                                         *)
(* One request at a time is followed through get_recommendation: the       *)
(* connection check, the five LangGraph nodes in the order the compiled    *)
(* graph runs them, and the mapping of the final state to an HTTP answer.  *)
(* The data store and the generative service are environments: every       *)
(* query result, every parsed answer and every failure message is drawn    *)
(* from a bounded set at the moment the code issues the call.              *)
(*                                                                         *)
(* Python values: a dict is a function over a set of strings (a key that   *)
(* is absent from the dict is absent from the DOMAIN), a list is a         *)
(* sequence, a str is a string, None is the string None below.             *)
(***************************************************************************)
EXTENDS Naturals, Sequences, FiniteSets, TLC

VARIABLES
    conn,        \* db_manager.conn: "None", "open" or "closed"
    pc,          \* position of the request inside get_recommendation
    customer_id, \* the path parameter of the request being served
    state,       \* the AgentState dict threaded through the graph
    exc,         \* text of the exception that escaped a node (pc = "raised")
    response,    \* what get_recommendation answered
    ran,         \* history: names of the nodes invoked for this request
    calls,       \* history: external calls issued for this request, each
                 \* [name |-> the call, outcome |-> how it ended]
    all_peer_products
                 \* history: <<the set of products query 2 returned for this
                 \* request>>, << >> while it has returned none

vars == <<conn, pc, customer_id, state, exc, response, ran, calls, all_peer_products>>

----------------------------------------------------------------------------
(* Bounds of the model *)

\* rows the store returns for one customer
MaxRows == 2
\* entries in the generative service's answer to the affinity request
MaxSuggestions == 1
\* entries in the generative service's answer to the scoring request
MaxOpportunities == 2
\* the most calls made on db_manager where it is exercised by itself
MaxManagerCalls == 4
\* the most entries of an answer to the scoring request, where the cap of the
\* report at TopN entries is at stake
MaxLongOpportunities == 6

----------------------------------------------------------------------------
(* Python values *)

\* Python's None, and SQL NULL as the driver hands it over
None == "<None>"

\* {**d, **o}
Update(d, o) ==
    [k \in (DOMAIN d) \cup (DOMAIN o) |-> IF k \in DOMAIN o THEN o[k] ELSE d[k]]

\* d.get(k, default)
Get(d, k, default) == IF k \in DOMAIN d THEN d[k] ELSE default

\* sub in s, for two str
Contains(s, sub) ==
    \E i \in 1..(Len(s) + 1) :
        /\ i + Len(sub) - 1 <= Len(s)
        /\ SubSeq(s, i, i + Len(sub) - 1) = sub

\* the elements of a list
Range(seq) == {seq[i] : i \in 1..Len(seq)}

\* every list over S of length at most n
SeqsUpTo(S, n) == UNION {[1..k -> S] : k \in 0..n}

\* every ordering of the finite set S: what list(set(...)) can return, the
\* iteration order of a set of str depending on the process's hash seed
Orderings(S) ==
    {q \in [1..Cardinality(S) -> S] : \A i, j \in 1..Cardinality(S) : q[i] = q[j] => i = j}

\* list(set(xs)): the distinct items of xs, each once, in any order
DistinctListKeepsDuplicates(xs) == {xs}

DistinctList(xs) == Orderings(Range(xs))

\* ", ".join(xs) raises TypeError when an item is not a str
JoinRaises(xs) == None \in Range(xs)

\* the list with the entries for owned products left in
ProductKept(xs, owned) == xs

\* [x for x in xs if x['product'] not in owned], every x holding the key
RECURSIVE ProductNotIn(_, _)
ProductNotIn(xs, owned) ==
    IF xs = <<>> THEN <<>>
    ELSE IF Head(xs)["product"] \notin owned
         THEN <<Head(xs)>> \o ProductNotIn(Tail(xs), owned)
         ELSE ProductNotIn(Tail(xs), owned)

\* x.get('score', 0)
ScoreKey(x) == Get(x, "score", 0)

\* inserts x behind the entries whose key is at least x's: one step of a
\* stable sort by descending key
RECURSIVE InsertByScore(_, _)
InsertByScore(sorted, x) ==
    IF sorted = <<>> THEN <<x>>
    ELSE IF ScoreKey(Head(sorted)) >= ScoreKey(x)
         THEN <<Head(sorted)>> \o InsertByScore(Tail(sorted), x)
         ELSE <<x>> \o sorted

\* the list left in the order the service gave it
LeftUnsorted(xs) == xs

\* sorted(xs, key=lambda x: x.get('score', 0), reverse=True): stable, so
\* entries of equal score keep the order they had in xs
RECURSIVE SortedByScore(_)
SortedByScore(xs) ==
    IF xs = <<>> THEN <<>>
    ELSE InsertByScore(SortedByScore(SubSeq(xs, 1, Len(xs) - 1)), xs[Len(xs)])

\* xs[:n]
Take(xs, n) == SubSeq(xs, 1, IF Len(xs) < n THEN Len(xs) ELSE n)

----------------------------------------------------------------------------
(* The environment: what the caller, the store and the service can supply *)

\* customer ids a caller can put in the path (any text without a slash)
CustomerIds == {"C001", "Error in Opportunity Scoring Agent"}

\* str(e) of an exception of the driver or of pandas.read_sql
DbErrors == {"connection reset", "cursor not found"}

\* str(e) of an exception of the generative service's chain (the call itself
\* or the parsing of its answer)
LlmErrors == {"quota exceeded", "model is not found"}

\* "Product" of a purchase row; the column is nullable (generateinit.py)
RowProducts == {"Drills", "Drill Bits", None}

\* the profile columns of a customer's rows, the same in each of its rows,
\* numbers written as their decimal text; "Annual Revenue (USD)" and
\* "Number of Employees" are nullable
ProfileColumns ==
    { [Industry |-> "Construction", Revenue |-> "5000", Employees |-> "50"],
      [Industry |-> "Construction", Revenue |-> None, Employees |-> "50"],
      [Industry |-> "Construction", Revenue |-> "5000", Employees |-> None] }

\* the DataFrames query 1 can return: the rows of one customer, in store order
CustomerFrames ==
    { [i \in 1..Len(ps) |->
         [Product |-> ps[i], Industry |-> pr.Industry,
          Revenue |-> pr.Revenue, Employees |-> pr.Employees]] :
      ps \in SeqsUpTo(RowProducts, MaxRows), pr \in ProfileColumns }

\* products the same-industry peers can have bought
PeerUniverse == {"Drills", "Generators", "Safety Gear"}

\* the results of query 2: the distinct peer products of an industry
PeerFrames == SUBSET PeerUniverse

\* what a chain ending in JsonOutputParser can give: an exception, or the
\* parsed JSON value, a dict (py = "dict", items its keys) or another value
JsonAnswers(dicts) ==
    {[raised |-> TRUE, msg |-> m] : m \in LlmErrors}
    \cup {[raised |-> FALSE, value |-> [py |-> "list"]]}
    \cup {[raised |-> FALSE, value |-> [py |-> "dict", items |-> d]] : d \in dicts}

\* entries the service can put in its list of suggestions; the parser does
\* not validate them against ProductSuggestion, so keys can be missing
SuggestionEntries ==
    { [product |-> "Generators", rationale |-> "powers the drills"],
      [product |-> "Drills", rationale |-> "more drills"],
      [product |-> "Safety Gear"],
      [rationale |-> "no product named"] }

\* the answers to the affinity request
AffinityAnswers ==
    JsonAnswers({[suggestions |-> l] : l \in SeqsUpTo(SuggestionEntries, MaxSuggestions)}
                \cup {[note |-> "nothing to suggest"]})

\* entries the service can put in its list of opportunities; the parser does
\* not validate them against ScoredOpportunity
OpportunityEntries ==
    { [product |-> "Generators", type |-> "Cross-Sell", score |-> 9, rationale |-> "peers buy it"],
      [product |-> "Safety Gear", type |-> "Upsell", score |-> 10, rationale |-> "fits the site"],
      [product |-> "Drills", type |-> "Upsell", score |-> 7, rationale |-> "buy more"],
      [product |-> "Generators", type |-> "Bundle", score |-> 11, rationale |-> "bundle"],
      [product |-> "Safety Gear", score |-> 3],
      [type |-> "Upsell", score |-> 5, rationale |-> "no product named"] }

\* the answers to the scoring request
ScoringAnswers ==
    JsonAnswers({[opportunities |-> l] : l \in SeqsUpTo(OpportunityEntries, MaxOpportunities)}
                \cup {[note |-> "nothing to score"]})

\* entries that name a product, a type, a score and a rationale
FullOpportunityEntries ==
    {e \in OpportunityEntries : DOMAIN e = {"product", "type", "score", "rationale"}}

\* the answers to the scoring request with up to MaxLongOpportunities entries
LongScoringAnswers ==
    JsonAnswers({[opportunities |-> l] :
                    l \in SeqsUpTo(FullOpportunityEntries, MaxLongOpportunities)})

\* the texts the report request can return
ReportTexts == {"Research Report: Cross-Sell and Upsell Opportunities", ""}

\* the answers to the report request (a chain ending in StrOutputParser)
ReportAnswers ==
    {[raised |-> TRUE, msg |-> m] : m \in LlmErrors}
    \cup {[raised |-> FALSE, value |-> t] : t \in ReportTexts}

----------------------------------------------------------------------------
(* db_manager.py *)

\* _connect_on_demand with handlers that swallow the failure to connect
_connect_on_demand_swallows(c) ==
    IF c = "None" \/ c = "closed"
    THEN {[raised |-> FALSE, conn |-> "open", attempted |-> TRUE],
          [raised |-> FALSE, conn |-> "None", attempted |-> TRUE]}
    ELSE {[raised |-> FALSE, conn |-> c, attempted |-> FALSE]}

\* _connect_on_demand with handlers that re-raise without resetting self.conn
_connect_on_demand_keeps_conn(c) ==
    IF c = "None" \/ c = "closed"
    THEN {[raised |-> FALSE, conn |-> "open", attempted |-> TRUE]}
         \cup {[raised |-> TRUE, conn |-> c, msg |-> m, attempted |-> TRUE] : m \in DbErrors}
    ELSE {[raised |-> FALSE, conn |-> c, attempted |-> FALSE]}

\* DBManager._connect_on_demand on a held connection c: the outcomes, each
\* with the connection held afterwards; attempted tells that
\* psycopg2.connect was called
_connect_on_demand(c) ==
    IF c = "None" \/ c = "closed"
    THEN {[raised |-> FALSE, conn |-> "open", attempted |-> TRUE]}
         \cup {[raised |-> TRUE, conn |-> "None", msg |-> m, attempted |-> TRUE] :
                   m \in DbErrors}
    ELSE {[raised |-> FALSE, conn |-> c, attempted |-> FALSE]}

\* DBManager.fetch_data_as_df on a held connection c, frames being the
\* results the store can give to this query: the outcomes. issued tells
\* that read_sql was reached; a failing read can leave the connection
\* open or broken (closed)
fetch_data_as_df(c, frames) ==
    UNION { IF o.raised
            THEN {[raised |-> TRUE, msg |-> o.msg, conn |-> o.conn, issued |-> FALSE,
                   attempted |-> o.attempted]}
            ELSE {[raised |-> FALSE, df |-> f, conn |-> o.conn, issued |-> TRUE,
                   attempted |-> o.attempted] : f \in frames}
                 \cup {[raised |-> TRUE, msg |-> m, conn |-> c2, issued |-> TRUE,
                        attempted |-> o.attempted] :
                      m \in DbErrors, c2 \in {"open", "closed"}}
          : o \in _connect_on_demand(c) }

\* DBManager.execute_query on a held connection c: the outcomes. A failing
\* statement is rolled back and re-raised, and can leave the connection
\* open or broken (closed)
execute_query(c) ==
    UNION { IF o.raised
            THEN {[raised |-> TRUE, msg |-> o.msg, conn |-> o.conn, issued |-> FALSE,
                   attempted |-> o.attempted]}
            ELSE {[raised |-> FALSE, conn |-> o.conn, issued |-> TRUE,
                   attempted |-> o.attempted]}
                 \cup {[raised |-> TRUE, msg |-> m, conn |-> c2, issued |-> TRUE,
                        attempted |-> o.attempted] :
                      m \in DbErrors, c2 \in {"open", "closed"}}
          : o \in _connect_on_demand(c) }

\* DBManager.close on a held connection c: the connection held afterwards
close(c) == IF c = "open" THEN "closed" ELSE c

----------------------------------------------------------------------------
(* main.py: the nodes.  A node applied to the state it receives and to    *)
(* the connection held by db_manager gives the set of its outcomes: the   *)
(* state it returns (or the exception that escapes it), the connection    *)
(* held afterwards and the external calls it issued, in order.            *)

\* state.get("error") as a condition
HasError(st) == Get(st, "error", None) \notin {None, ""}

\* an entry of the history of calls
Call(name, outcome) == [name |-> name, outcome |-> outcome]

Returns(st, c, issued) == [raised |-> FALSE, state |-> st, conn |-> c, calls |-> issued]
Raises(m, c, issued) == [raised |-> TRUE, msg |-> m, conn |-> c, calls |-> issued]

\* float(x) of a profile column, as text: a NULL reaches it as NaN or as
\* None, by the dtype pandas gave the column, and float(None) raises
FloatOutcomes(x) ==
    IF x = None THEN {[raised |-> TRUE], [raised |-> FALSE, value |-> "nan"]}
    ELSE {[raised |-> FALSE, value |-> x \o ".0"]}

\* int(x) of a profile column, as text: int(None) and int(NaN) both raise
IntOutcome(x) ==
    IF x = None THEN [raised |-> TRUE] ELSE [raised |-> FALSE, value |-> x]

\* customer_context_agent(state)
customer_context_agent(st, c) ==
    UNION {
        LET issued == IF ~o.issued THEN <<>>
                      ELSE IF o.raised THEN <<Call("query1", "raised")>>
                      ELSE IF o.df = <<>> THEN <<Call("query1", "no rows")>>
                      ELSE <<Call("query1", "rows")>>
        IN
        IF o.raised
        THEN {Returns(Update(st, [error |-> "Database error fetching customer data: " \o o.msg]),
                      o.conn, issued)}
        ELSE IF o.df = <<>>
        THEN {Returns(Update(st, [error |-> "Customer ID " \o st.customer_id \o " not found."]),
                      o.conn, issued)}
        ELSE LET first_row == o.df[1]
                 employees == IntOutcome(first_row.Employees)
             IN  { IF revenue.raised
                   THEN Raises("float() argument must be a string or a real number, not 'NoneType'",
                               o.conn, issued)
                   ELSE IF employees.raised
                   THEN Raises("int() argument must be a string or a real number",
                               o.conn, issued)
                   ELSE Returns(Update(st,
                          [customer_profile |->
                               [industry |-> first_row.Industry,
                                annual_revenue_usd |-> revenue.value,
                                number_of_employees |-> employees.value],
                           customer_purchase_history |->
                               [i \in 1..Len(o.df) |-> [Product |-> o.df[i].Product]],
                           error |-> None]),
                          o.conn, issued)
                   : revenue \in FloatOutcomes(first_row.Revenue) }
        : o \in fetch_data_as_df(c, CustomerFrames) }

\* missing_opportunities_products with the products the customer owns kept
missing_opportunities_keeps_owned(peer_products, frequent_products) ==
    Orderings(peer_products)

\* list(all_peer_products - set(frequent_products)): the lists it may be
missing_opportunities(peer_products, frequent_products) ==
    Orderings(peer_products \ Range(frequent_products))

\* purchase_pattern_analysis_agent(state), past its check of the error
purchase_pattern_analysis(st, c) ==
    LET customer_purchase_history == st.customer_purchase_history
        purchased_products ==
            [i \in 1..Len(customer_purchase_history) |-> customer_purchase_history[i].Product]
    IN  UNION {
            LET issued == IF ~o.issued THEN <<>>
                          ELSE IF o.raised THEN <<Call("query2", "raised")>>
                          ELSE <<Call("query2", "rows")>>
            IN
            IF o.raised
            THEN {Returns(Update(st, [error |-> "Database error fetching industry peer data: " \o o.msg]),
                          o.conn, issued)}
            ELSE UNION {
                   { Update(Returns(Update(st,
                         [frequent_products |-> frequent_products,
                          missing_opportunities_products |-> missing_opportunities_products]),
                         o.conn, issued),
                       [peers |-> o.df])
                     : missing_opportunities_products \in
                           missing_opportunities(o.df, frequent_products) }
                   : frequent_products \in DistinctList(purchased_products) }
            : o \in fetch_data_as_df(c, PeerFrames) }

\* purchase_pattern_analysis_agent that returns the history emptied
purchase_pattern_analysis_agent_drops_history(st, c) ==
    IF HasError(st) THEN {Returns(st, c, <<>>)}
    ELSE { IF HasError(r.state) THEN r
           ELSE [r EXCEPT !.state = Update(r.state, [customer_purchase_history |-> <<>>])]
           : r \in purchase_pattern_analysis(st, c) }

\* purchase_pattern_analysis_agent with an early return on an empty history
purchase_pattern_analysis_agent_skips_empty(st, c) ==
    IF HasError(st) THEN {Returns(st, c, <<>>)}
    ELSE IF st.customer_purchase_history = <<>>
    THEN {Returns(Update(st, [frequent_products |-> <<>>,
                              missing_opportunities_products |-> <<>>]), c, <<>>)}
    ELSE purchase_pattern_analysis(st, c)

\* purchase_pattern_analysis_agent(state)
purchase_pattern_analysis_agent(st, c) ==
    IF HasError(st) THEN {Returns(st, c, <<>>)}
    ELSE purchase_pattern_analysis(st, c)


\* the first key of keys that an entry of xs lacks, entries taken in order;
\* None when every entry holds every key (no KeyError)
MissingKey(xs, keys) ==
    LET bad == {i \in 1..Len(xs) : \E j \in 1..Len(keys) : keys[j] \notin DOMAIN xs[i]}
    IN  IF bad = {} THEN None
        ELSE LET i == CHOOSE b \in bad : \A b2 \in bad : b <= b2
                 j == CHOOSE a \in 1..Len(keys) :
                          /\ keys[a] \notin DOMAIN xs[i]
                          /\ \A a2 \in 1..(a - 1) : keys[a2] \in DOMAIN xs[i]
             IN  keys[j]

\* product_affinity_agent(state), past its check of the error
product_affinity(st, c) ==
    LET customer_purchased_products == st.frequent_products IN
    IF customer_purchased_products = <<>>
    THEN {Returns(Update(st, [related_product_suggestions |-> <<>>]), c, <<>>)}
    ELSE IF JoinRaises(customer_purchased_products)
    THEN \* TypeError while building the request, inside the try
         {Returns(Update(st, [related_product_suggestions |-> <<>>]), c, <<>>)}
    ELSE
    { LET raw == IF a.raised \/ a.value.py # "dict" THEN <<>>
                 ELSE Get(a.value.items, "suggestions", <<>>)
          related_product_suggestions ==
              IF MissingKey(raw, <<"product">>) # None THEN <<>>
              ELSE ProductNotIn(raw, Range(customer_purchased_products))
      IN  Returns(Update(st, [related_product_suggestions |-> related_product_suggestions]),
                  c, <<Call("llm_affinity", IF a.raised THEN "raised" ELSE "answered")>>)
      : a \in AffinityAnswers }

\* product_affinity_agent whose pass-through resets its own output field
product_affinity_agent_overwrites(st, c) ==
    IF HasError(st)
    THEN {Returns(Update(st, [related_product_suggestions |-> <<>>]), c, <<>>)}
    ELSE product_affinity(st, c)

\* product_affinity_agent that treats a failed request as fatal, as the
\* Opportunity Scorer does
product_affinity_agent_fatal(st, c) ==
    IF HasError(st) THEN {Returns(st, c, <<>>)}
    ELSE { IF r.calls = <<Call("llm_affinity", "raised")>>
           THEN Returns(Update(st, [error |-> "Error in Product Affinity Agent: request failed"]),
                        c, r.calls)
           ELSE r
           : r \in product_affinity(st, c) }

\* product_affinity_agent(state)
product_affinity_agent(st, c) ==
    IF HasError(st) THEN {Returns(st, c, <<>>)}
    ELSE product_affinity(st, c)

\* opportunity_scoring_agent(state), past its check of the error, when the
\* service answers the scoring request with one of answers
opportunity_scoring_on(st, c, answers) ==
    LET frequent_products == st.frequent_products
        missing_opportunities_products == st.missing_opportunities_products
    IN
    IF JoinRaises(frequent_products) \/ JoinRaises(missing_opportunities_products)
    THEN {Raises("sequence item 0: expected str instance, NoneType found", c, <<>>)}
    ELSE
    { LET issued == <<Call("llm_scoring", IF a.raised THEN "raised" ELSE "answered")>>
          failure ==
              IF a.raised THEN a.msg
              ELSE IF a.value.py # "dict" THEN "'list' object has no attribute 'get'"
              ELSE IF MissingKey(Get(a.value.items, "opportunities", <<>>), <<"product">>) # None
                   THEN "'product'"
              ELSE None
      IN  IF failure # None
          THEN Returns(Update(st, [error |-> "Error in Opportunity Scoring Agent: " \o failure]),
                       c, issued)
          ELSE LET scored_opportunities_raw == Get(a.value.items, "opportunities", <<>>)
                   scored_opportunities ==
                       SortedByScore(ProductNotIn(scored_opportunities_raw,
                                                  Range(frequent_products)))
               IN  Returns(Update(st, [scored_opportunities |-> scored_opportunities]),
                           c, issued)
      : a \in answers }

\* opportunity_scoring_agent(state), past its check of the error
opportunity_scoring(st, c) == opportunity_scoring_on(st, c, ScoringAnswers)

\* opportunity_scoring_agent that looks at the error only after its request
opportunity_scoring_agent_checks_late(st, c) ==
    IF HasError(st)
    THEN {Returns(st, c, <<Call("llm_scoring", o)>>) : o \in {"raised", "answered"}}
    ELSE opportunity_scoring(st, c)

\* opportunity_scoring_agent that degrades to an empty list when its request
\* fails, as the Affinity Resolver does
opportunity_scoring_agent_soft(st, c) ==
    IF HasError(st) THEN {Returns(st, c, <<>>)}
    ELSE { IF r.calls = <<Call("llm_scoring", "raised")>>
           THEN Returns(Update(st, [scored_opportunities |-> <<>>]), c, r.calls)
           ELSE r
           : r \in opportunity_scoring(st, c) }

\* opportunity_scoring_agent(state)
opportunity_scoring_agent(st, c) ==
    IF HasError(st) THEN {Returns(st, c, <<>>)}
    ELSE opportunity_scoring(st, c)

\* the most opportunities the report lists
TopN == 5

\* recommendation_report_agent(state), past its check of the error
recommendation_report(st, c) ==
    LET frequent_products == st.frequent_products
        missing_opportunities_products == st.missing_opportunities_products
        related_product_suggestions == st.related_product_suggestions
        scored_opportunities == st.scored_opportunities
        top == Take(scored_opportunities, TopN)
        top_recommendations_structured ==
            [i \in 1..Len(top) |->
                [product |-> top[i].product, type |-> top[i].type, reason |-> top[i].rationale]]
        \* the exception raised while the prompt is built, None when none is
        building ==
            IF MissingKey(top, <<"product", "type", "rationale">>) # None
            THEN "'" \o MissingKey(top, <<"product", "type", "rationale">>) \o "'"
            ELSE IF JoinRaises(frequent_products) \/ JoinRaises(missing_opportunities_products)
            THEN "sequence item 0: expected str instance, NoneType found"
            ELSE IF MissingKey(related_product_suggestions, <<"product", "rationale">>) # None
            THEN "'" \o MissingKey(related_product_suggestions, <<"product", "rationale">>) \o "'"
            ELSE IF MissingKey(top, <<"product", "type", "score", "rationale">>) # None
            THEN "'" \o MissingKey(top, <<"product", "type", "score", "rationale">>) \o "'"
            ELSE None
    IN
    IF building # None THEN {Raises(building, c, <<>>)}
    ELSE
    { IF a.raised
      THEN Returns(Update(st, [error |-> "Error in Recommendation Report Agent: " \o a.msg]),
                   c, <<Call("llm_report", "raised")>>)
      ELSE Returns(Update(st, [research_report |-> a.value,
                               recommendations_structured |-> top_recommendations_structured]),
                   c, <<Call("llm_report", "answered")>>)
      : a \in ReportAnswers }

\* recommendation_report_agent that stores the text it built for the failure
\* as the report
recommendation_report_agent_keeps_report(st, c) ==
    IF HasError(st) THEN {Returns(st, c, <<>>)}
    ELSE { IF r.calls = <<Call("llm_report", "raised")>>
           THEN Returns(Update(r.state, [research_report |-> "Error generating report with LLM"]),
                        c, r.calls)
           ELSE r
           : r \in recommendation_report(st, c) }

\* recommendation_report_agent that reports an error when nothing was scored
recommendation_report_agent_needs_opportunities(st, c) ==
    IF HasError(st) THEN {Returns(st, c, <<>>)}
    ELSE IF st.scored_opportunities = <<>>
    THEN {Returns(Update(st, [error |-> "Error in Recommendation Report Agent: nothing scored"]),
                  c, <<>>)}
    ELSE recommendation_report(st, c)

\* recommendation_report_agent(state)
recommendation_report_agent(st, c) ==
    IF HasError(st) THEN {Returns(st, c, <<>>)}
    ELSE recommendation_report(st, c)


----------------------------------------------------------------------------
(* main.py: the compiled graph *)

\* the targets named by the edges that leave node once it has returned st:
\* those of its plain edge and of its conditional edge
Targets(node, st) ==
    CASE node = "customer_context" ->
            {IF HasError(st) THEN "END" ELSE "purchase_pattern_analysis"}
      [] node = "purchase_pattern_analysis" -> {"product_affinity_agent"}
      [] node = "product_affinity_agent" -> {"opportunity_scoring_agent"}
      [] node = "opportunity_scoring_agent" ->
            {"recommendation_report_agent"}
            \cup {IF HasError(st)
                     /\ Contains(Get(st, "error", ""), "Error in Opportunity Scoring Agent")
                  THEN "END" ELSE "recommendation_report_agent"}
      [] node = "recommendation_report_agent" -> {"END"}

\* NextNode with an edge from recommendation_report_agent back to
\* opportunity_scoring_agent, taken when the report request failed
NextNodeRescores(node, st) ==
    IF node = "recommendation_report_agent"
       /\ Contains(Get(st, "error", ""), "Error in Recommendation Report Agent")
    THEN "opportunity_scoring_agent"
    ELSE LET nodes == Targets(node, st) \ {"END"}
         IN  IF nodes = {} THEN "END" ELSE CHOOSE n \in nodes : TRUE

\* NextNode with a Context Loader that is run again when it failed
NextNodeRetry(node, st) ==
    IF node = "customer_context" /\ HasError(st) THEN "customer_context"
    ELSE LET nodes == Targets(node, st) \ {"END"}
         IN  IF nodes = {} THEN "END" ELSE CHOOSE n \in nodes : TRUE

\* NextNode without the conditional edge that leaves customer_context
NextNodeNoErrorEdge(node, st) ==
    IF node = "customer_context" THEN "purchase_pattern_analysis"
    ELSE LET nodes == Targets(node, st) \ {"END"}
         IN  IF nodes = {} THEN "END" ELSE CHOOSE n \in nodes : TRUE

\* the node that runs after node returned st, "END" when none does.
\* opportunity_scoring_agent has a plain edge and a conditional edge, so
\* recommendation_report_agent is triggered whatever the condition chooses
NextNode(node, st) ==
    LET nodes == Targets(node, st) \ {"END"}
    IN  IF nodes = {} THEN "END" ELSE CHOOSE n \in nodes : TRUE

\* one node of the graph runs: its outcome is merged into the state and the
\* graph moves on; an exception that escapes the node ends the run
RunNode(name, outcomes) ==
    /\ pc = name
    /\ \E r \in outcomes :
        /\ conn' = r.conn
        /\ ran' = Append(ran, name)
        /\ calls' = calls \o r.calls
        /\ all_peer_products' =
               IF "peers" \in DOMAIN r THEN <<r.peers>> ELSE all_peer_products
        /\ IF r.raised
           THEN /\ pc' = "raised"
                /\ exc' = r.msg
                /\ state' = state
           ELSE /\ pc' = NextNode(name, r.state)
                /\ exc' = exc
                /\ state' = r.state
    /\ UNCHANGED <<customer_id, response>>

CustomerContext == RunNode("customer_context", customer_context_agent(state, conn))

PurchasePatternAnalysis ==
    RunNode("purchase_pattern_analysis", purchase_pattern_analysis_agent(state, conn))

ProductAffinity == RunNode("product_affinity_agent", product_affinity_agent(state, conn))

OpportunityScoring ==
    RunNode("opportunity_scoring_agent", opportunity_scoring_agent(state, conn))

RecommendationReport ==
    RunNode("recommendation_report_agent", recommendation_report_agent(state, conn))

----------------------------------------------------------------------------
(* main.py: the HTTP entry point *)

HTTPException(status_code, detail) ==
    [kind |-> "HTTPException", status_code |-> status_code, detail |-> detail]

\* a returned RecommendationResponse: FastAPI sends it with status 200
RecommendationResponse(cid, report, recommendations, error) ==
    [kind |-> "RecommendationResponse", status_code |-> 200, customer_id |-> cid,
     research_report |-> report, recommendations |-> recommendations, error |-> error]

NoResponse == [kind |-> "none"]

\* AnswerFor without its look at the error of the final state
AnswerForUnchecked(cid, final_state_value) ==
    RecommendationResponse(cid,
        Get(final_state_value, "research_report",
            "Report not generated due to an internal error."),
        Get(final_state_value, "recommendations_structured", <<>>),
        Get(final_state_value, "error", None))

\* AnswerFor without its 404 branch
AnswerForNo404(cid, final_state_value) ==
    IF HasError(final_state_value)
    THEN IF \/ Contains(final_state_value.error, "Error in Opportunity Scoring Agent")
            \/ Contains(final_state_value.error, "Error in Recommendation Report Agent")
         THEN RecommendationResponse(cid,
                  "Report generation failed due to an internal AI error.",
                  <<>>, final_state_value.error)
         ELSE HTTPException(500, final_state_value.error)
    ELSE AnswerForUnchecked(cid, final_state_value)

\* get_recommendation, from the value app_workflow.invoke returned
AnswerFor(cid, final_state_value) ==
    IF HasError(final_state_value)
    THEN IF \/ Contains(final_state_value.error, "Error in Opportunity Scoring Agent")
            \/ Contains(final_state_value.error, "Error in Recommendation Report Agent")
         THEN RecommendationResponse(cid,
                  "Report generation failed due to an internal AI error.",
                  <<>>, final_state_value.error)
         ELSE IF Contains(final_state_value.error, "not found")
         THEN HTTPException(404, final_state_value.error)
         ELSE HTTPException(500, final_state_value.error)
    ELSE RecommendationResponse(cid,
             Get(final_state_value, "research_report",
                 "Report not generated due to an internal error."),
             Get(final_state_value, "recommendations_structured", <<>>),
             Get(final_state_value, "error", None))

\* get_recommendation, when app_workflow.invoke raised e
AnswerForException(e) == HTTPException(500, "Internal server error: " \o e)

\* a request arrives: the connection is checked, and the graph is started on
\* {"customer_id": customer_id} when it is there
Request ==
    /\ pc = "idle"
    /\ \E cid \in CustomerIds, o \in _connect_on_demand(conn) :
        /\ customer_id' = cid
        /\ conn' = o.conn
        /\ IF o.raised
           THEN /\ response' = HTTPException(503, "Database service unavailable: " \o o.msg)
                /\ pc' = "responded"
                /\ state' = state
           ELSE /\ response' = response
                /\ pc' = "customer_context"
                /\ state' = [customer_id |-> cid]
    /\ UNCHANGED <<exc, ran, calls, all_peer_products>>

\* the graph has ended: the final state, or the exception, is answered
Respond ==
    /\ pc \in {"END", "raised"}
    /\ response' = IF pc = "raised" THEN AnswerForException(exc)
                   ELSE AnswerFor(customer_id, state)
    /\ pc' = "responded"
    /\ UNCHANGED <<conn, customer_id, state, exc, ran, calls, all_peer_products>>

\* the server takes the next request; only db_manager outlives a request
NextRequest ==
    /\ pc = "responded"
    /\ pc' = "idle"
    /\ customer_id' = None
    /\ state' = <<>>
    /\ exc' = None
    /\ response' = NoResponse
    /\ ran' = <<>>
    /\ calls' = <<>>
    /\ all_peer_products' = <<>>
    /\ UNCHANGED conn

\* the module has been imported: DBManager() has connected
Init ==
    /\ conn = "open"
    /\ pc = "idle"
    /\ customer_id = None
    /\ state = <<>>
    /\ exc = None
    /\ response = NoResponse
    /\ ran = <<>>
    /\ calls = <<>>
    /\ all_peer_products = <<>>

Next ==
    \/ Request
    \/ CustomerContext
    \/ PurchasePatternAnalysis
    \/ ProductAffinity
    \/ OpportunityScoring
    \/ RecommendationReport
    \/ Respond
    \/ NextRequest

Spec == Init /\ [][Next]_vars

\* the positions of a request that is being served: a node is about to run,
\* or the graph has ended and the answer is about to be sent
BusyPcs ==
    {"customer_context", "purchase_pattern_analysis", "product_affinity_agent",
     "opportunity_scoring_agent", "recommendation_report_agent", "END", "raised"}

\* a step of a request that is being served: the node at pc runs, or the
\* answer is sent; each such step of Next leaves the position pc
StepOfRequest ==
    /\ pc \in BusyPcs
    /\ pc' \in BusyPcs \cup {"responded"}
    /\ pc' # pc

\* every query and every request to the service returns or fails, so a
\* request that is being served takes its next step; no request need arrive
SpecLive == Spec /\ WF_pc(StepOfRequest)

\* one method of db_manager is called: ran records the method, exc the
\* exception it raised, and calls what it did with the store, a "connect"
\* for psycopg2.connect and a "query" for the statement it executed
ManagerCall(name, outcomes) ==
    /\ pc = "db_manager"
    /\ Len(ran) < MaxManagerCalls
    /\ \E o \in outcomes :
        /\ conn' = o.conn
        /\ ran' = Append(ran, name)
        /\ exc' = IF o.raised THEN o.msg ELSE None
        /\ calls' = calls
               \o (IF o.attempted
                   THEN <<Call("connect",
                               IF o.raised /\ ~o.issued THEN "failed" ELSE "opened")>>
                   ELSE <<>>)
               \o (IF o.issued
                   THEN <<Call("query", IF o.raised THEN "raised" ELSE "done")>>
                   ELSE <<>>)
    /\ UNCHANGED <<pc, customer_id, state, response, all_peer_products>>

CallConnectOnDemand ==
    ManagerCall("_connect_on_demand",
                {[raised |-> o.raised, msg |-> Get(o, "msg", None), conn |-> o.conn,
                  attempted |-> o.attempted, issued |-> FALSE] :
                    o \in _connect_on_demand(conn)})

CallFetchDataAsDf ==
    ManagerCall("fetch_data_as_df",
                {[raised |-> o.raised, msg |-> Get(o, "msg", None), conn |-> o.conn,
                  attempted |-> o.attempted, issued |-> o.issued] :
                    o \in fetch_data_as_df(conn, PeerFrames)})

CallExecuteQuery ==
    ManagerCall("execute_query",
                {[raised |-> o.raised, msg |-> Get(o, "msg", None), conn |-> o.conn,
                  attempted |-> o.attempted, issued |-> o.issued] :
                    o \in execute_query(conn)})

CallClose ==
    ManagerCall("close",
                {[raised |-> FALSE, msg |-> None, conn |-> close(conn),
                  attempted |-> FALSE, issued |-> FALSE]})

\* DBManager() has connected and its methods are about to be called
InitManager ==
    /\ conn = "open"
    /\ pc = "db_manager"
    /\ customer_id = None
    /\ state = <<>>
    /\ exc = None
    /\ response = NoResponse
    /\ ran = <<>>
    /\ calls = <<>>
    /\ all_peer_products = <<>>

NextManager ==
    \/ CallConnectOnDemand
    \/ CallFetchDataAsDf
    \/ CallExecuteQuery
    \/ CallClose

SpecManager == InitManager /\ [][NextManager]_vars

\* the Opportunity Scorer runs on an answer of up to MaxLongOpportunities
\* entries
OpportunityScoringLong ==
    RunNode("opportunity_scoring_agent",
            IF HasError(state) THEN {Returns(state, conn, <<>>)}
            ELSE opportunity_scoring_on(state, conn, LongScoringAnswers))

\* the graph has run its first three nodes for a customer with one purchase
\* row, and the affinity request gave no suggestion
InitReport ==
    /\ conn = "open"
    /\ pc = "opportunity_scoring_agent"
    /\ customer_id = "C001"
    /\ \E p \in RowProducts \ {None}, peers \in PeerFrames :
         /\ all_peer_products = <<peers>>
         /\ \E missing \in missing_opportunities(peers, <<p>>) :
              state = [customer_id |-> "C001",
                       customer_profile |-> [industry |-> "Construction",
                                             annual_revenue_usd |-> "5000.0",
                                             number_of_employees |-> "50"],
                       customer_purchase_history |-> <<[Product |-> p]>>,
                       error |-> None,
                       frequent_products |-> <<p>>,
                       missing_opportunities_products |-> missing,
                       related_product_suggestions |-> <<>>]
    /\ exc = None
    /\ response = NoResponse
    /\ ran = <<"customer_context", "purchase_pattern_analysis", "product_affinity_agent">>
    /\ calls = <<Call("query1", "rows"), Call("query2", "rows"),
                 Call("llm_affinity", "answered")>>

NextReport ==
    \/ OpportunityScoringLong
    \/ RecommendationReport
    \/ Respond

SpecReport == InitReport /\ [][NextReport]_vars

\* the error-free states purchase_pattern_analysis_agent can be called on,
\* the one with an empty customer_purchase_history among them
AnalyzerStates ==
    { [customer_id |-> cid,
       customer_profile |-> [industry |-> "Construction",
                             annual_revenue_usd |-> "5000.0",
                             number_of_employees |-> "50"],
       customer_purchase_history |-> [i \in 1..Len(ps) |-> [Product |-> ps[i]]],
       error |-> None] :
      cid \in CustomerIds, ps \in SeqsUpTo(RowProducts, MaxRows) }

\* purchase_pattern_analysis_agent is called on such a state directly, not
\* through the graph: no node has run before it
InitAnalyzer ==
    /\ conn = "open"
    /\ pc = "purchase_pattern_analysis"
    /\ state \in AnalyzerStates
    /\ customer_id = state.customer_id
    /\ exc = None
    /\ response = NoResponse
    /\ ran = <<>>
    /\ calls = <<>>
    /\ all_peer_products = <<>>

SpecAnalyzer == InitAnalyzer /\ [][Next]_vars

----------------------------------------------------------------------------
(* Vocabulary of the properties *)

\* the nodes, in the order of the graph's edges from its entry point
StageOrder ==
    <<"customer_context", "purchase_pattern_analysis", "product_affinity_agent",
      "opportunity_scoring_agent", "recommendation_report_agent">>

\* the external calls, in the order of the nodes that issue them
CallOrder == <<"query1", "query2", "llm_affinity", "llm_scoring", "llm_report">>

\* the calls to the generative service
LlmCalls == {"llm_affinity", "llm_scoring", "llm_report"}

IsPrefix(a, b) == Len(a) <= Len(b) /\ a = SubSeq(b, 1, Len(a))

PositionIn(name, order) == CHOOSE i \in 1..Len(order) : order[i] = name

\* the call name was issued for this request and ended with outcome
Ended(name, outcome) == \E i \in 1..Len(calls) : calls[i] = Call(name, outcome)

\* the call name was issued for this request
Issued(name) == \E i \in 1..Len(calls) : calls[i].name = name

\* the graph has ended by returning its final state
Finished == pc \in {"END", "responded"} /\ ran # <<>> /\ exc = None

Populated(st, key) == key \in DOMAIN st

FailurePlaceholder == "Report generation failed due to an internal AI error."

NotFoundText(cid) == "Customer ID " \o cid \o " not found."

----------------------------------------------------------------------------
(* C1: in every run the nodes are invoked in the fixed order Context      *)
(* Loader, Pattern Analyzer, Affinity Resolver, Opportunity Scorer,       *)
(* Report Synthesizer, one at a time, and no node, no data-store query    *)
(* and no generative-service call is executed twice for one request,      *)
(* also after a failure.                                                  *)
C1_FixedOrderOnce ==
    /\ IsPrefix(ran, StageOrder)
    /\ \A i, j \in 1..Len(calls) :
           i < j => PositionIn(calls[i].name, CallOrder) < PositionIn(calls[j].name, CallOrder)
    /\ pc \in Range(StageOrder) => pc = StageOrder[Len(ran) + 1]

\* a request has run every node and issued every call, the last one failing
C1_Witness ==
    /\ pc = "responded"
    /\ ran = StageOrder
    /\ CallOrder = [i \in 1..Len(calls) |-> calls[i].name]
    /\ Ended("llm_report", "raised")

(* C2: once a node has returned a state carrying an error, every node     *)
(* invoked later returns that state unchanged, so the state the graph     *)
(* outputs is that state: no field is added, changed or cleared.          *)
C2_ErrorStateFrozen ==
    [][(HasError(state) /\ pc # "responded") => state' = state]_vars

\* the scoring call failed and the Report Synthesizer was still invoked
C2_Witness ==
    /\ pc = "END"
    /\ ran = StageOrder
    /\ Ended("llm_scoring", "raised")
    /\ HasError(state)
    /\ Populated(state, "related_product_suggestions")

(* C3: once the state carries an error no further external call is issued *)
(* for the request: no query, no connection attempt and no                *)
(* generative-service call.                                               *)
C3_NoCallAfterError ==
    [][(HasError(state) /\ pc # "responded") => (calls' = calls /\ conn' = conn)]_vars

\* the peer query failed, the three later nodes were invoked and none of
\* them issued a call
C3_Witness ==
    /\ pc = "END"
    /\ ran = StageOrder
    /\ HasError(state)
    /\ Len(calls) = 2
    /\ Ended("query2", "raised")

(* C4: a final state without error that holds research_report and         *)
(* recommendations_structured is reached only when all five nodes ran to  *)
(* completion in the request; a state that carries an error never holds   *)
(* research_report or recommendations_structured.                         *)
C4_SuccessOnlyAfterAllStages ==
    /\ (Finished /\ ~HasError(state)
          /\ Populated(state, "research_report")
          /\ Populated(state, "recommendations_structured"))
       => /\ ran = StageOrder
          /\ Ended("query1", "rows") /\ Ended("query2", "rows")
          /\ Ended("llm_scoring", "answered") /\ Ended("llm_report", "answered")
          /\ \A k \in {"customer_profile", "customer_purchase_history", "frequent_products",
                       "missing_opportunities_products", "related_product_suggestions",
                       "scored_opportunities"} : Populated(state, k)
    /\ HasError(state)
       => /\ ~Populated(state, "research_report")
          /\ ~Populated(state, "recommendations_structured")

\* the success state, with a recommendation in it
C4_Witness ==
    /\ pc = "END"
    /\ ~HasError(state)
    /\ Populated(state, "research_report")
    /\ Populated(state, "recommendations_structured")
    /\ state.recommendations_structured # <<>>

(* C5: when query 1 returns zero rows the Context Loader sets the error   *)
(* "Customer ID <id> not found.", populates neither the profile nor the   *)
(* purchase history, and the graph ends with that error without the peer  *)
(* query and without any generative-service call.                         *)
C5_ZeroRowsNotFound ==
    Ended("query1", "no rows") =>
        /\ state.error = NotFoundText(customer_id)
        /\ ~Populated(state, "customer_profile")
        /\ ~Populated(state, "customer_purchase_history")
        /\ pc \in {"END", "responded"}
        /\ ran = <<"customer_context">>
        /\ calls = <<Call("query1", "no rows")>>

\* the graph has ended on a customer without rows
C5_Witness ==
    /\ pc = "END"
    /\ Ended("query1", "no rows")
    /\ DOMAIN state = {"customer_id", "error"}

(* C6: when the generative service fails, or its answer cannot be parsed, *)
(* in the Affinity Resolver, the node returns an empty suggestion list,   *)
(* leaves the error absent and the graph goes on to the Opportunity       *)
(* Scorer; the Affinity Resolver never sets or changes the error.         *)
C6_AffinitySoftFail ==
    [][pc = "product_affinity_agent" =>
         /\ pc' = "opportunity_scoring_agent"
         /\ Get(state', "error", None) = Get(state, "error", None)
         /\ calls' = Append(calls, Call("llm_affinity", "raised")) =>
               /\ state'.related_product_suggestions = <<>>
               /\ ~HasError(state')]_vars

\* the affinity call has failed and the Opportunity Scorer is next
C6_Witness ==
    /\ pc = "opportunity_scoring_agent"
    /\ Ended("llm_affinity", "raised")
    /\ state.related_product_suggestions = <<>>
    /\ ~HasError(state)

StartsWith(text, prefix) ==
    Len(text) >= Len(prefix) /\ SubSeq(text, 1, Len(prefix)) = prefix

(* C7: when the generative service fails in the Opportunity Scorer, the   *)
(* node sets the error "Error in Opportunity Scoring Agent: ...", does    *)
(* not populate scored_opportunities, and the Report Synthesizer issues   *)
(* no generative request and writes no report and no recommendations.     *)
C7_ScoringFailureFatal ==
    Ended("llm_scoring", "raised") =>
        /\ HasError(state)
        /\ StartsWith(state.error, "Error in Opportunity Scoring Agent: ")
        /\ ~Populated(state, "scored_opportunities")
        /\ ~Populated(state, "research_report")
        /\ ~Populated(state, "recommendations_structured")
        /\ ~Issued("llm_report")
        /\ pc \in {"recommendation_report_agent", "END", "responded"}

\* the request whose scoring call failed has been answered
C7_Witness ==
    /\ pc = "responded"
    /\ ran = StageOrder
    /\ Ended("llm_scoring", "raised")
    /\ Len(calls) = 4

(* C8: when the generative service fails in the Report Synthesizer, the   *)
(* node sets the error "Error in Recommendation Report Agent: ..." and    *)
(* writes neither research_report nor recommendations_structured; in no   *)
(* other case does the Report Synthesizer set or change the error.        *)
C8_ReportFailureOnly ==
    [][pc = "recommendation_report_agent" =>
         IF calls' = Append(calls, Call("llm_report", "raised"))
         THEN /\ HasError(state')
              /\ StartsWith(state'.error, "Error in Recommendation Report Agent: ")
              /\ state' = Update(state, [error |-> state'.error])
              /\ ~Populated(state', "research_report")
              /\ ~Populated(state', "recommendations_structured")
         ELSE Get(state', "error", None) = Get(state, "error", None)]_vars

\* the report call has failed on a state that held scored opportunities
C8_Witness ==
    /\ pc = "END"
    /\ Ended("llm_report", "raised")
    /\ HasError(state)
    /\ Populated(state, "scored_opportunities")
    /\ state.scored_opportunities # <<>>

(* C9: the entry point returns no partial result: a response body whose   *)
(* error field is not null has an empty recommendations list and the      *)
(* fixed placeholder as report; a response body whose error field is null *)
(* carries the report and the recommendations the Report Synthesizer      *)
(* wrote for this request.                                                *)
C9_NoPartialResults ==
    response.kind = "RecommendationResponse" =>
        IF response.error # None
        THEN /\ response.recommendations = <<>>
             /\ response.research_report = FailurePlaceholder
        ELSE /\ ran = StageOrder
             /\ Ended("llm_report", "answered")
             /\ Populated(state, "research_report")
             /\ Populated(state, "recommendations_structured")
             /\ response.research_report = state.research_report
             /\ response.recommendations = state.recommendations_structured

\* a body that carries an error has been returned
C9_Witness ==
    /\ pc = "responded"
    /\ response.kind = "RecommendationResponse"
    /\ response.error # None
    /\ Ended("llm_report", "raised")

\* the id's text holds one of the two markers by which get_recommendation
\* recognises a failure of the generative service
HoldsAiMarker(text) ==
    \/ Contains(text, "Error in Opportunity Scoring Agent")
    \/ Contains(text, "Error in Recommendation Report Agent")

(* C10, as stated: for an unknown customer id the answer is NotFound with *)
(* an empty recommendations list and the report field set to the fixed    *)
(* placeholder, and no generative-service call is made.                   *)
C10_AsStated ==
    (pc = "responded" /\ Ended("query1", "no rows")) =>
        /\ Populated(response, "recommendations")
        /\ response.recommendations = <<>>
        /\ Populated(response, "research_report")
        /\ response.research_report = FailurePlaceholder
        /\ \A n \in LlmCalls : ~Issued(n)

(* C10, amended: for an unknown customer id no generative-service call is *)
(* made, the final state holds the error "Customer ID <id> not found."    *)
(* and neither report nor recommendations, and the answer is the HTTP     *)
(* error 404 whose detail is that error, which has no recommendations and *)
(* no report field; only for an id whose text holds one of the two        *)
(* generative-failure markers is the answer a body with that error, an    *)
(* empty recommendations list and the fixed placeholder as report.        *)
C10_UnknownCustomer ==
    (pc = "responded" /\ Ended("query1", "no rows")) =>
        /\ \A n \in LlmCalls : ~Issued(n)
        /\ state.error = NotFoundText(customer_id)
        /\ ~Populated(state, "research_report")
        /\ ~Populated(state, "recommendations_structured")
        /\ response =
              IF HoldsAiMarker(customer_id)
              THEN RecommendationResponse(customer_id, FailurePlaceholder, <<>>,
                                          NotFoundText(customer_id))
              ELSE HTTPException(404, NotFoundText(customer_id))

\* an unknown customer id has been answered with 404
C10_Witness ==
    /\ pc = "responded"
    /\ Ended("query1", "no rows")
    /\ response.kind = "HTTPException"
    /\ response.status_code = 404

(* C11: the entry point answers 404 if and only if the error of the       *)
(* pipeline is the Context Loader's not-found error (query 1 returned     *)
(* zero rows): that error yields 404 whatever the text of the customer    *)
(* id, and no failure of the store or of the generative service yields    *)
(* 404 whatever its message.                                              *)
C11_NotFoundIff404 ==
    pc = "responded" =>
        (response.status_code = 404 <=> Ended("query1", "no rows"))

(* C12: when the connection to the store cannot be established as a       *)
(* request arrives, the entry point answers 503 and the pipeline is not   *)
(* started: no node runs, no query and no generative-service call is      *)
(* issued; otherwise the pipeline is started.                             *)
C12_Unavailable503 ==
    [][pc = "idle" =>
         IF conn' = "None"
         THEN /\ response'.kind = "HTTPException"
              /\ response'.status_code = 503
              /\ StartsWith(response'.detail, "Database service unavailable: ")
              /\ pc' = "responded"
              /\ ran' = <<>> /\ calls' = <<>> /\ state' = state
         ELSE /\ pc' = "customer_context"
              /\ response' = NoResponse]_vars

\* a request has been answered 503 with nothing run for it
C12_Witness ==
    /\ pc = "responded"
    /\ response.status_code = 503
    /\ conn = "None"
    /\ ran = <<>>
    /\ calls = <<>>

\* the values of the Product column of the purchase history held in st
HistoryProducts(st) ==
    {st.customer_purchase_history[i].Product : i \in 1..Len(st.customer_purchase_history)}

NoDuplicates(xs) == \A i, j \in 1..Len(xs) : xs[i] = xs[j] => i = j

(* C13: once the Pattern Analyzer has completed without error,            *)
(* frequent_products holds exactly the distinct Product values of the     *)
(* customer's purchase history, each once: none twice, none missing,      *)
(* none extra.                                                            *)
C13_FrequentProductsDistinct ==
    Populated(state, "frequent_products") =>
        /\ Range(state.frequent_products) = HistoryProducts(state)
        /\ NoDuplicates(state.frequent_products)

\* a history that names one product twice has been analysed
C13_Witness ==
    /\ Populated(state, "frequent_products")
    /\ Len(state.customer_purchase_history) = 2
    /\ state.customer_purchase_history[1].Product = "Drills"
    /\ state.customer_purchase_history[2].Product = "Drills"
    /\ state.frequent_products = <<"Drills">>

(* C14: once the Pattern Analyzer has completed without error,            *)
(* missing_opportunities_products is the set of distinct products that    *)
(* query 2 returned for the other customers of the industry, minus        *)
(* frequent_products, each once; the two lists are disjoint in every      *)
(* reachable state.                                                       *)
C14_MissingIsPeersMinusOwned ==
    Populated(state, "missing_opportunities_products") =>
        /\ Populated(state, "frequent_products")
        /\ all_peer_products # <<>>
        /\ Range(state.missing_opportunities_products) =
               all_peer_products[1] \ Range(state.frequent_products)
        /\ NoDuplicates(state.missing_opportunities_products)
        /\ Range(state.missing_opportunities_products)
               \cap Range(state.frequent_products) = {}

\* the peers bought a product the customer owns and one the customer lacks
C14_Witness ==
    /\ Populated(state, "missing_opportunities_products")
    /\ all_peer_products = <<{"Drills", "Generators"}>>
    /\ "Drills" \in Range(state.frequent_products)
    /\ state.missing_opportunities_products = <<"Generators">>

(* C15 as stated: for a customer with an empty purchase history (query 1  *)
(* returned no rows) the pipeline produces an empty frequent_products and *)
(* a missing_opportunities_products equal to the full peer-product set.   *)
C15_AsStated ==
    (pc = "responded" /\ Ended("query1", "no rows")) =>
        /\ Populated(state, "frequent_products")
        /\ state.frequent_products = <<>>
        /\ Populated(state, "missing_opportunities_products")
        /\ all_peer_products # <<>>
        /\ Range(state.missing_opportunities_products) = all_peer_products[1]

(* C15, amended: the Pattern Analyzer called on an error-free state whose *)
(* purchase history is empty returns, when query 2 succeeds, an empty     *)
(* frequent_products and a missing_opportunities_products holding the     *)
(* full peer-product set; the pipeline never brings this about, since a   *)
(* customer without rows ends in the Context Loader's not-found error     *)
(* with neither list computed.                                            *)
C15_EmptyHistory ==
    /\ (Populated(state, "frequent_products") /\ state.customer_purchase_history = <<>>) =>
           /\ "customer_context" \notin Range(ran)
           /\ state.frequent_products = <<>>
           /\ all_peer_products # <<>>
           /\ Range(state.missing_opportunities_products) = all_peer_products[1]
           /\ NoDuplicates(state.missing_opportunities_products)
    /\ Ended("query1", "no rows") =>
           /\ state.error = NotFoundText(customer_id)
           /\ ~Populated(state, "frequent_products")
           /\ ~Populated(state, "missing_opportunities_products")

\* the Pattern Analyzer has been called on an empty history while the peers
\* had bought two products
C15_Witness ==
    /\ ran = <<"purchase_pattern_analysis">>
    /\ state.customer_purchase_history = <<>>
    /\ Populated(state, "frequent_products")
    /\ state.frequent_products = <<>>
    /\ all_peer_products = <<{"Drills", "Generators"}>>
    /\ Range(state.missing_opportunities_products) = {"Drills", "Generators"}

(* C16: every score in scored_opportunities lies in the integer range     *)
(* 1..10, whatever the generative service answered to the scoring         *)
(* request.                                                               *)
C16_ScoresInRange ==
    Populated(state, "scored_opportunities") =>
        \A i \in 1..Len(state.scored_opportunities) :
            "score" \in DOMAIN state.scored_opportunities[i] =>
                state.scored_opportunities[i].score \in 1..10

(* C17: the final recommendation list never holds two entries with the    *)
(* same product, whatever list of scored opportunities the scoring stage  *)
(* produced.                                                              *)
C17_NoDuplicateProducts ==
    Populated(state, "recommendations_structured") =>
        \A i, j \in 1..Len(state.recommendations_structured) :
            state.recommendations_structured[i].product =
                state.recommendations_structured[j].product => i = j

(* C18: the final recommendation list has at most 5 entries and is the    *)
(* leading slice of the scored-opportunity list, which is sorted by score *)
(* descending: the entries are in non-increasing score order, no omitted  *)
(* opportunity has a strictly higher score than a reported one, and each  *)
(* entry carries the product, the type and the rationale (as reason) of   *)
(* its scored opportunity.                                                *)
C18_TopFiveSlice ==
    Populated(state, "recommendations_structured") =>
        LET recs == state.recommendations_structured
            scored == state.scored_opportunities
        IN  /\ Len(recs) <= 5
            /\ Len(recs) = IF Len(scored) < 5 THEN Len(scored) ELSE 5
            /\ \A i \in 1..Len(recs) :
                   recs[i] = [product |-> scored[i].product,
                              type |-> scored[i].type,
                              reason |-> scored[i].rationale]
            /\ \A i, j \in 1..Len(scored) :
                   i < j => ScoreKey(scored[i]) >= ScoreKey(scored[j])
            /\ \A i \in 1..Len(recs), j \in (Len(recs) + 1)..Len(scored) :
                   ScoreKey(scored[j]) <= ScoreKey(scored[i])

\* six opportunities of three different scores were scored and five of them
\* reported, one of the lowest score left out
C18_Witness ==
    /\ Populated(state, "recommendations_structured")
    /\ Len(state.scored_opportunities) = 6
    /\ Len(state.recommendations_structured) = 5
    /\ state.scored_opportunities[1].score = 10
    /\ state.scored_opportunities[5].score = 9
    /\ state.scored_opportunities[6].score = 7
    /\ state.recommendations_structured[1].product = "Safety Gear"

\* the step a request takes on arrival at a server that has served nothing
\* yet: db_manager holds the connection opened at start-up
ArrivesAlone ==
    \E cid \in CustomerIds, o \in _connect_on_demand("open") :
        /\ ~o.raised
        /\ customer_id' = cid
        /\ conn' = o.conn
        /\ pc' = "customer_context"
        /\ state' = [customer_id |-> cid]
        /\ response' = NoResponse
        /\ ran' = <<>>
        /\ calls' = <<>>

(* C19: requests are independent: whatever the requests served before     *)
(* (or interleaved with it) did, a failed query on the shared connection  *)
(* included, a request proceeds and is answered as if it ran alone; so a  *)
(* request that arrives starts its pipeline as it does on a server that   *)
(* has served nothing yet.                                                *)
C19_RequestsIndependent == [][pc = "idle" => ArrivesAlone]_vars

\* an entry that satisfies ScoredOpportunity
SatisfiesSchema(e) ==
    /\ DOMAIN e = {"product", "type", "score", "rationale"}
    /\ e.type \in {"Cross-Sell", "Upsell"}
    /\ e.score \in 1..10

(* C20: an answer to the scoring request that violates the scoring        *)
(* schema (a type that is neither Cross-Sell nor Upsell, a score outside  *)
(* 1..10, a missing type or rationale) is a fatal failure: no such entry  *)
(* is ever in scored_opportunities, and no recommendation carries a type  *)
(* other than Cross-Sell and Upsell.                                      *)
C20_SchemaViolationFatal ==
    /\ Populated(state, "scored_opportunities") =>
           \A i \in 1..Len(state.scored_opportunities) :
               SatisfiesSchema(state.scored_opportunities[i])
    /\ Populated(state, "recommendations_structured") =>
           \A i \in 1..Len(state.recommendations_structured) :
               state.recommendations_structured[i].type \in {"Cross-Sell", "Upsell"}

\* the products named by the entries of the list st holds under key
ProductsOf(st, key) ==
    IF Populated(st, key) THEN {st[key][i].product : i \in 1..Len(st[key])} ELSE {}

(* C21: in every reachable state no product named in                      *)
(* related_product_suggestions, in scored_opportunities or in the final   *)
(* recommendations is a member of frequent_products, whatever products    *)
(* the generative service returned.                                       *)
C21_NoOwnedProductOffered ==
    Populated(state, "frequent_products") =>
        /\ ProductsOf(state, "related_product_suggestions")
               \cap Range(state.frequent_products) = {}
        /\ ProductsOf(state, "scored_opportunities")
               \cap Range(state.frequent_products) = {}
        /\ ProductsOf(state, "recommendations_structured")
               \cap Range(state.frequent_products) = {}

\* a customer who owns Drills, one of the products the service can name, has
\* been given a suggestion, a scored opportunity and a recommendation
C21_Witness ==
    /\ Populated(state, "recommendations_structured")
    /\ "Drills" \in Range(state.frequent_products)
    /\ ProductsOf(state, "related_product_suggestions") = {"Generators"}
    /\ ProductsOf(state, "scored_opportunities") = {"Generators", "Safety Gear"}
    /\ ProductsOf(state, "recommendations_structured") = {"Generators", "Safety Gear"}

\* the distinct values of xs in the order of their first occurrence
RECURSIVE FirstSeen(_)
FirstSeen(xs) ==
    IF xs = <<>> THEN <<>>
    ELSE LET before == FirstSeen(SubSeq(xs, 1, Len(xs) - 1))
         IN  IF xs[Len(xs)] \in Range(before) THEN before
             ELSE Append(before, xs[Len(xs)])

(* C22: frequent_products is produced in a deterministic order, the       *)
(* first-seen order over the purchase rows as the store returned them:    *)
(* product p stands before product q whenever p's first row precedes q's  *)
(* first row.                                                             *)
C22_FirstSeenOrder ==
    Populated(state, "frequent_products") =>
        state.frequent_products =
            FirstSeen([i \in 1..Len(state.customer_purchase_history) |->
                          state.customer_purchase_history[i].Product])

\* the keys of the state a node writes when it completes without error
OwnOutputs(node) ==
    CASE node = "customer_context" ->
             {"customer_profile", "customer_purchase_history", "error"}
      [] node = "purchase_pattern_analysis" ->
             {"frequent_products", "missing_opportunities_products"}
      [] node = "product_affinity_agent" -> {"related_product_suggestions"}
      [] node = "opportunity_scoring_agent" -> {"scored_opportunities"}
      [] node = "recommendation_report_agent" ->
             {"research_report", "recommendations_structured"}
      [] OTHER -> {}

(* C23: a stage that completes without error changes only its own output  *)
(* fields: every field its predecessors wrote, and customer_id, is in the *)
(* state it returns with the value it had, and the only fields it adds    *)
(* are its own.                                                           *)
C23_OnlyOwnOutputs ==
    [][(pc \in Range(StageOrder) /\ pc' # "raised" /\ ~HasError(state')) =>
          /\ \A k \in DOMAIN state :
                 /\ k \in DOMAIN state'
                 /\ k \notin OwnOutputs(pc) => state'[k] = state[k]
          /\ (DOMAIN state') \ (DOMAIN state) \subseteq OwnOutputs(pc)]_vars

\* all five stages have completed without error, each adding its fields
C23_Witness ==
    /\ pc = "END"
    /\ ran = StageOrder
    /\ ~HasError(state)
    /\ DOMAIN state = {"customer_id"} \cup UNION {OwnOutputs(n) : n \in Range(StageOrder)}
    /\ state.recommendations_structured # <<>>

(* C24: every failure inside a stage is reported through the error field  *)
(* of the state: whatever the store holds and whatever the generative     *)
(* service answers, no run of the pipeline ends by an exception escaping  *)
(* a stage.                                                               *)
C24_NoEscapingException == pc # "raised" /\ exc = None

(* C25: when every query and every call of the service returns or fails,  *)
(* every request whose pipeline was started reaches its end and is        *)
(* answered, after at most five executions of a stage and with no stage   *)
(* executed twice: the stage graph has no cycle.                          *)
C25_EveryRequestEnds ==
    /\ [](Len(ran) <= 5 /\ NoDuplicates(ran))
    /\ (pc = "customer_context") ~> (pc \in {"END", "raised"})
    /\ (pc \in {"END", "raised"}) ~> (pc = "responded")

\* a request has been answered after five executions of a stage
C25_Witness ==
    /\ pc = "responded"
    /\ Len(ran) = 5
    /\ response.kind = "RecommendationResponse"

\* what the method called in this step did with the store
DoneInStep == SubSeq(calls', Len(calls) + 1, Len(calls'))

(* C26: for the connection manager, after any sequence of                 *)
(* _connect_on_demand, fetch_data_as_df, execute_query and close calls:   *)
(* _connect_on_demand returns normally only with the held connection      *)
(* open; a new connection is opened only when none is held or the held    *)
(* one is closed, and then always (a call after close reconnects, a call  *)
(* on an open connection does not); a failure to connect leaves the held  *)
(* connection None and is propagated; a query is executed only after      *)
(* this check succeeded.                                                  *)
C26_ConnectOnDemand ==
    [][ran' # ran =>
          LET method == ran'[Len(ran')]
              connects == {i \in 1..Len(DoneInStep) : DoneInStep[i].name = "connect"}
              queries == {i \in 1..Len(DoneInStep) : DoneInStep[i].name = "query"}
              failed == \E i \in connects : DoneInStep[i].outcome = "failed"
          IN  /\ (method = "_connect_on_demand" /\ exc' = None) => conn' = "open"
              /\ IF method = "close" THEN connects = {}
                 ELSE (connects # {}) <=> (conn \in {"None", "closed"})
              /\ failed => (conn' = "None" /\ exc' # None /\ queries = {})
              /\ queries # {} =>
                     /\ ~failed
                     /\ conn = "open" \/ DoneInStep[1] = Call("connect", "opened")
              /\ method = "close" => (conn' # "open" /\ exc' = None)]_vars

\* the connection was closed, the next query reconnected and ran, and a
\* later try to reconnect after another close failed
C26_Witness ==
    /\ ran = <<"close", "fetch_data_as_df", "close", "_connect_on_demand">>
    /\ calls = <<Call("connect", "opened"), Call("query", "done"),
                 Call("connect", "failed")>>
    /\ conn = "None"
    /\ exc # None

============================================================================
